---- MODULE Spec2Model ----
(***************************************************************************)
(* Model of the OIOO ("One-in, One-out") container of src/src/lib.rs:      *)
(* a padded primary store, an overflow queue, a capacity derived from a    *)
(* Phase at construction, and the two public operations one_in / one_out.  *)
(* Items carry the value passed by the caller and, as a ghost field, the   *)
(* ordinal of the one_in call that moved them into the container.          *)
(***************************************************************************)
EXTENDS Integers, Sequences, FiniteSets, Bags, TLC

\* ---- bounds of the model ------------------------------------------------
MaxOccupancy == 8
MaxAdmit == 5
\* one_in calls in a run of two containers side by side
MaxPairAdmit == 3

\* values a caller may pass to one_in (T is generic; two values allow repeats)
Values == {10, 20}

\* ---- Option<T> ----------------------------------------------------------
None == <<>>
Some(x) == <<x>>
is_some(o) == Len(o) = 1
unwrap(o) == o[1]

\* ---- Phase and construction --------------------------------------------
Phases ==
    [tag : {"One"}, occupancy : 0..MaxOccupancy, is_essential : BOOLEAN]
        \cup [tag : {"Two"}, occupancy : 0..MaxOccupancy]

social_distance == 6

\* variant: Phase One given the Phase Two share
new_capacity_half(ph) == ph.occupancy \div 2

\* variant: is_essential not consulted
new_capacity_any(ph) ==
    IF ph.tag = "One" THEN ph.occupancy \div 4 ELSE ph.occupancy \div 2

new_capacity(ph) ==
    IF ph.tag = "One"
    THEN (IF ph.is_essential THEN ph.occupancy \div 4 ELSE 0)
    ELSE ph.occupancy \div 2

\* ---- private helpers ----------------------------------------------------
\* variant: strict comparison
at_capacity_strict(st, cap) == (Len(st) \div (social_distance + 1)) > cap

\* variant: raw store length compared, stride forgotten
at_capacity_raw(st, cap) == Len(st) >= cap

at_capacity(st, cap) == (Len(st) \div (social_distance + 1)) >= cap

\* variant: one empty slot too few
add_social_distance_short(st) == st \o [i \in 1..(social_distance - 1) |-> None]

add_social_distance(st) == st \o [i \in 1..social_distance |-> None]

\* store.iter().filter(|x| x.is_some()).collect().len()
get_number_in_store(st) == Cardinality({i \in DOMAIN st : is_some(st[i])})

\* rng.gen_range(low, high): the values a draw can produce (low < high)
\* variant: upper end included
gen_range_incl(low, high) == low..high

\* variant: a generator that always yields the low end
gen_range_low(low, high) == {low}

gen_range(low, high) == low..(high - 1)

\* Vec::drain(a..b) with 0-based half-open range: the removed part and the rest
drain_out(st, a, b) == SubSeq(st, a + 1, b)
\* variant: only the first slot of the range is removed
drain_rest_slot(st, a, b) == SubSeq(st, 1, a) \o SubSeq(st, a + 2, Len(st))

drain_rest(st, a, b) == SubSeq(st, 1, a) \o SubSeq(st, b + 1, Len(st))

\* ---- one_in as a function of the fields --------------------------------
\* variant: the capacity test inverted
one_in_inverted(st, q, cap, item) ==
    IF at_capacity(st, cap)
    THEN [store |-> add_social_distance(Append(st, Some(item))), queue |-> q]
    ELSE [store |-> st, queue |-> Append(q, item)]

\* variant: an item arriving at capacity is dropped
one_in_drop(st, q, cap, item) ==
    IF ~at_capacity(st, cap)
    THEN [store |-> add_social_distance(Append(st, Some(item))), queue |-> q]
    ELSE [store |-> st, queue |-> q]

one_in(st, q, cap, item) ==
    IF ~at_capacity(st, cap)
    THEN [store |-> add_social_distance(Append(st, Some(item))), queue |-> q]
    ELSE [store |-> st, queue |-> Append(q, item)]

\* ---- the refill step of one_out: queue.remove(0) then one_in ------------
\* variant: no refill
refill_skip(st, q, cap) == [store |-> st, queue |-> q]

\* variant: the front item is read but left in the queue
refill_keep(st, q, cap) ==
    IF q # <<>> THEN one_in(st, q, cap, Head(q)) ELSE [store |-> st, queue |-> q]

\* variant: the refilled block is put at the front of the store
refill_front(st, q, cap) ==
    IF q # <<>>
    THEN [store |-> add_social_distance(<<Some(Head(q))>>) \o st, queue |-> Tail(q)]
    ELSE [store |-> st, queue |-> q]

\* variant: the back of the queue is taken (queue.pop())
refill_back(st, q, cap) ==
    IF q # <<>>
    THEN one_in(st, SubSeq(q, 1, Len(q) - 1), cap, q[Len(q)])
    ELSE [store |-> st, queue |-> q]

refill(st, q, cap) ==
    IF q # <<>>
    THEN one_in(st, Tail(q), cap, Head(q))
    ELSE [store |-> st, queue |-> q]

\* ---- one_out as a function of the fields and of the random draw k ------
\* k is a draw of gen_range(0, n); panicked records a Rust panic
\* (empty range, index out of bounds, drain range out of bounds).
\* variant: an empty store is offered the queue front before None is returned
one_out_eager(st, q, cap, k) ==
    LET n == get_number_in_store(st)
        out_index == k * (social_distance + 1)
        social_distance_index == out_index + social_distance + 1
        unchanged == [store |-> st, queue |-> q, result |-> None, panicked |-> FALSE]
        panic == [store |-> st, queue |-> q, result |-> None, panicked |-> TRUE]
    IN  IF Len(st) = 0
        THEN [store |-> refill(st, q, cap).store, queue |-> refill(st, q, cap).queue,
              result |-> None, panicked |-> FALSE]
        ELSE IF n = 0 THEN panic
        ELSE IF out_index >= Len(st) THEN panic
        ELSE IF is_some(st[out_index + 1])
        THEN IF social_distance_index > Len(st) THEN panic
             ELSE LET out_and_social_distance == drain_out(st, out_index, social_distance_index)
                      st1 == drain_rest(st, out_index, social_distance_index)
                      r == refill(st1, q, cap)
                  IN  [store |-> r.store, queue |-> r.queue,
                       result |-> Some(unwrap(out_and_social_distance[1])),
                       panicked |-> FALSE]
        ELSE unchanged

one_out(st, q, cap, k) ==
    LET n == get_number_in_store(st)
        out_index == k * (social_distance + 1)
        social_distance_index == out_index + social_distance + 1
        unchanged == [store |-> st, queue |-> q, result |-> None, panicked |-> FALSE]
        panic == [store |-> st, queue |-> q, result |-> None, panicked |-> TRUE]
    IN  IF Len(st) = 0 THEN unchanged
        ELSE IF n = 0 THEN panic
        ELSE IF out_index >= Len(st) THEN panic
        ELSE IF is_some(st[out_index + 1])
        THEN IF social_distance_index > Len(st) THEN panic
             ELSE LET out_and_social_distance == drain_out(st, out_index, social_distance_index)
                      st1 == drain_rest(st, out_index, social_distance_index)
                      r == refill(st1, q, cap)
                  IN  [store |-> r.store, queue |-> r.queue,
                       result |-> Some(unwrap(out_and_social_distance[1])),
                       panicked |-> FALSE]
        ELSE unchanged

\* the draws available to a one_out call on store st
Draws(st) ==
    IF Len(st) = 0 \/ get_number_in_store(st) = 0
    THEN {0}
    ELSE gen_range(0, get_number_in_store(st))

\* ---- state --------------------------------------------------------------
VARIABLES
    phase,      \* the Phase passed to new
    store,      \* Vec<Option<T>>
    queue,      \* Vec<T>
    capacity,   \* usize, fixed by new
    nextId,     \* ghost: ordinal of the next one_in call
    admitted,   \* ghost: items passed to one_in, in call order
    released,   \* ghost: items returned by one_out, in call order
    result,     \* return value of the last one_out call
    lastOp,     \* "new", "one_in" or "one_out"
    interleaved, \* ghost: some one_in call came after a one_out call
    panicked,   \* a call panicked
    other       \* a second container built from the same Phase (pair runs):
                \* its store, queue, released items, last result and panic flag

vars == <<phase, store, queue, capacity, nextId, admitted, released, result, lastOp, interleaved, panicked, other>>

Init ==
    /\ phase \in Phases
    /\ capacity = new_capacity(phase)
    /\ store = <<>>
    /\ queue = <<>>
    /\ nextId = 1
    /\ admitted = <<>>
    /\ released = <<>>
    /\ result = None
    /\ lastOp = "new"
    /\ interleaved = FALSE
    /\ panicked = FALSE
    /\ other = [store |-> <<>>, queue |-> <<>>, released |-> <<>>,
                result |-> None, panicked |-> FALSE]

\* a caller's one_in(item)
Admit ==
    /\ ~panicked
    /\ nextId <= MaxAdmit
    /\ \E v \in Values :
         LET item == [id |-> nextId, val |-> v]
             r == one_in(store, queue, capacity, item)
         IN  /\ store' = r.store
             /\ queue' = r.queue
             /\ admitted' = Append(admitted, item)
    /\ nextId' = nextId + 1
    /\ lastOp' = "one_in"
    /\ interleaved' = (interleaved \/ lastOp = "one_out")
    /\ UNCHANGED <<phase, capacity, released, result, panicked, other>>

\* the outcomes a one_out call can have in the current state, one per draw
ReleaseOutcomes == {one_out(store, queue, capacity, k) : k \in Draws(store)}

\* a caller's one_out()
Release ==
    /\ ~panicked
    /\ \E r \in ReleaseOutcomes :
         /\ store' = r.store
         /\ queue' = r.queue
         /\ result' = r.result
         /\ panicked' = r.panicked
         /\ released' = IF is_some(r.result)
                        THEN Append(released, unwrap(r.result))
                        ELSE released
    /\ lastOp' = "one_out"
    /\ UNCHANGED <<phase, capacity, nextId, admitted, interleaved, other>>

Next == Admit \/ Release

Spec == Init /\ [][Next]_vars

\* ---- two containers built alike and fed alike (test_one_out_is_random) ---
\* the outcomes of a one_out call on a container with the given fields
OutcomesOf(st, q, cap) == {one_out(st, q, cap, k) : k \in Draws(st)}

\* oioo_1.one_in(x); oioo_2.one_in(x)
AdmitPair ==
    /\ ~panicked /\ ~other.panicked
    /\ nextId <= MaxPairAdmit
    /\ \E v \in Values :
         LET item == [id |-> nextId, val |-> v]
             r1 == one_in(store, queue, capacity, item)
             r2 == one_in(other.store, other.queue, capacity, item)
         IN  /\ store' = r1.store
             /\ queue' = r1.queue
             /\ other' = [other EXCEPT !.store = r2.store, !.queue = r2.queue]
             /\ admitted' = Append(admitted, item)
    /\ nextId' = nextId + 1
    /\ lastOp' = "one_in"
    /\ interleaved' = (interleaved \/ lastOp = "one_out")
    /\ UNCHANGED <<phase, capacity, released, result, panicked>>

\* oioo_1.one_out() != oioo_2.one_out(): each call makes its own draw
ReleasePair ==
    /\ ~panicked /\ ~other.panicked
    /\ \E r1 \in ReleaseOutcomes :
         /\ store' = r1.store
         /\ queue' = r1.queue
         /\ result' = r1.result
         /\ panicked' = r1.panicked
         /\ released' = IF is_some(r1.result)
                        THEN Append(released, unwrap(r1.result))
                        ELSE released
    /\ \E r2 \in OutcomesOf(other.store, other.queue, capacity) :
         other' = [store |-> r2.store, queue |-> r2.queue,
                   released |-> IF is_some(r2.result)
                                THEN Append(other.released, unwrap(r2.result))
                                ELSE other.released,
                   result |-> r2.result, panicked |-> r2.panicked]
    /\ lastOp' = "one_out"
    /\ UNCHANGED <<phase, capacity, nextId, admitted, interleaved>>

NextPair == AdmitPair \/ ReleasePair

SpecPair == Init /\ [][NextPair]_vars

\* ---- derived views ------------------------------------------------------
S == social_distance
Range(s) == {s[i] : i \in DOMAIN s}
OccupiedIdx == {i \in DOMAIN store : is_some(store[i])}
ItemsOf(st) == {unwrap(st[i]) : i \in {j \in DOMAIN st : is_some(st[j])}}
OccupiedItems == ItemsOf(store)
occupied_count == get_number_in_store(store)

\* number of places (occupied store slots and queue entries) holding item x
Places(x) ==
    Cardinality({i \in OccupiedIdx : unwrap(store[i]) = x})
        + Cardinality({j \in DOMAIN queue : queue[j] = x})

\* the bag of caller values carried by a sequence of items
ValBag(s) ==
    [v \in {s[i].val : i \in DOMAIN s} |-> Cardinality({i \in DOMAIN s : s[i].val = v})]

NoRepeat(s) == \A i, j \in DOMAIN s : i # j => s[i] # s[j]

\* no one_out call has been made since construction
NoReleaseYet == lastOp # "one_out" /\ ~interleaved

\* ---- claims -------------------------------------------------------------

\* C1: items are never duplicated or lost. Every item passed to one_in and
\* not yet returned by one_out is in exactly one place (one occupied slot of
\* the store or one entry of the queue); every item returned by one_out was
\* admitted earlier, is returned at most once and is held nowhere any more.
C1_NoDupNoLoss ==
    /\ \A x \in Range(admitted) \ Range(released) : Places(x) = 1
    /\ \A x \in Range(released) : x \in Range(admitted) /\ Places(x) = 0
    /\ NoRepeat(released)
    /\ OccupiedItems \cup Range(queue) \subseteq Range(admitted)

C1_Witness ==
    /\ Len(released) >= 2
    /\ occupied_count >= 2
    /\ Len(queue) >= 1
    /\ lastOp = "one_out"

\* C2 as stated: for any configuration, when a run of one_in calls followed
\* by one_out calls ends with one_out returning None, the values returned
\* are, as a multiset, exactly the values admitted, each item once, and
\* nothing is still held in the store or the queue.
C2_Original ==
    (~interleaved /\ lastOp = "one_out" /\ result = None)
        => /\ ValBag(released) = ValBag(admitted)
           /\ Range(released) = Range(admitted)
           /\ NoRepeat(released)
           /\ occupied_count = 0
           /\ queue = <<>>

\* C2 amended: the same for configurations whose capacity is at least 1.
C2_DrainReturnsAll ==
    capacity >= 1 => C2_Original

C2_Witness ==
    /\ capacity >= 1
    /\ ~interleaved
    /\ lastOp = "one_out"
    /\ result = None
    /\ Len(admitted) > capacity
    /\ \E i, j \in DOMAIN admitted : i # j /\ admitted[i].val = admitted[j].val

\* C3: in every reachable state the number of occupied slots of the store
\* is at most the capacity fixed at construction.
C3_OccupiedAtMostCapacity ==
    occupied_count <= capacity

C3_Witness ==
    /\ capacity >= 2
    /\ occupied_count = capacity
    /\ queue # <<>>
    /\ released # <<>>

\* C4: the store length is occupied_count * (S + 1), and the store is a
\* concatenation of blocks of one occupied slot followed by S empty slots.
C4_BlockLayout ==
    /\ Len(store) = occupied_count * (S + 1)
    /\ \A i \in DOMAIN store : is_some(store[i]) <=> ((i - 1) % (S + 1) = 0)

\* after a removal at least two blocks remain, one of them admitted later than
\* the first item removed: that block was moved down by the removal
C4_Witness ==
    /\ released # <<>>
    /\ occupied_count >= 2
    /\ \E x \in OccupiedItems : x.id > released[1].id
    /\ lastOp = "one_out"

\* C5: whenever the queue is non-empty the store is at capacity: the number
\* of occupied slots equals the capacity.
C5_QueueImpliesFull ==
    queue # <<>> => occupied_count = capacity

C5_Witness ==
    /\ queue # <<>>
    /\ capacity >= 1
    /\ lastOp = "one_out"
    /\ is_some(result)

\* C6 as stated: in every reachable state of every configuration, an empty
\* store implies an empty queue.
C6_Original ==
    Len(store) = 0 => queue = <<>>

\* C6 amended: in every reachable state of a configuration whose capacity is
\* at least 1, an empty store implies an empty queue, so a one_out that
\* returns None leaves nothing waiting in the queue.
C6_EmptyStoreEmptyQueue ==
    capacity >= 1 => C6_Original

C6_Witness ==
    /\ capacity >= 1
    /\ Len(store) = 0
    /\ lastOp = "one_out"
    /\ result = None
    /\ Len(admitted) > capacity

\* C7: one_out returns None exactly when the store holds no occupied slot;
\* otherwise the values it can return are exactly the items occupying the
\* store at the call: each occupied item is a possible result, and nothing
\* else (in particular no queued item) can be returned by that call.
C7_ReleaseChoosesFromStore ==
    ~panicked =>
        LET results == {r.result : r \in ReleaseOutcomes}
        IN  /\ \A r \in ReleaseOutcomes : ~r.panicked
            /\ (None \in results) <=> (occupied_count = 0)
            /\ occupied_count > 0 => results = {Some(x) : x \in OccupiedItems}
            /\ \A x \in Range(queue) : Some(x) \notin results

C7_Witness ==
    /\ occupied_count >= 2
    /\ queue # <<>>
    /\ lastOp = "one_out"
    /\ is_some(result)
    /\ \E x \in OccupiedItems : x.id < unwrap(result).id

\* the share of the basis that the claim gives as the store's capacity
C8_Share ==
    IF phase.tag = "One" THEN phase.occupancy \div 4 ELSE phase.occupancy \div 2

\* C8: for a fresh container, after basis one_in calls, the number of occupied
\* slots is basis / 4 (Restricted mode, admit_enabled) or basis / 2 (Standard
\* mode), truncating, and all the other admitted items are in the queue.
C8_CapacityDerivation ==
    (/\ NoReleaseYet
     /\ Len(admitted) = phase.occupancy
     /\ (phase.tag = "One" => phase.is_essential))
        => /\ occupied_count = C8_Share
           /\ Len(queue) = phase.occupancy - C8_Share
           /\ \A x \in Range(admitted) \ OccupiedItems : x \in Range(queue)

C8_Witness ==
    /\ NoReleaseYet
    /\ phase.tag = "One"
    /\ phase.is_essential
    /\ phase.occupancy = 5
    /\ Len(admitted) = 5
    /\ occupied_count = 1
    /\ Len(queue) = 4

\* C9: in Restricted mode with admit_enabled = false the occupied count is
\* always 0 and every admitted item is in the queue.
C9_NotEssentialHoldsNothing ==
    (phase.tag = "One" /\ ~phase.is_essential)
        => /\ occupied_count = 0
           /\ \A x \in Range(admitted) : x \in Range(queue)

C9_Witness ==
    /\ phase.tag = "One"
    /\ ~phase.is_essential
    /\ phase.occupancy >= 4
    /\ Len(admitted) >= 2
    /\ lastOp = "one_out"
    /\ interleaved

\* what C10 says of the outcome r of a one_out call made while the queue is
\* non-empty
C10_RefillStep(r) ==
    /\ ~r.panicked
    /\ is_some(r.result)
    /\ unwrap(r.result) \in OccupiedItems
    /\ unwrap(r.result) \notin ItemsOf(r.store)
    /\ r.queue = Tail(queue)
    /\ Head(queue) \in ItemsOf(r.store)
    /\ get_number_in_store(r.store) = capacity

\* C10 as stated: a fresh container given C + k items (k >= 1) holds C of
\* them in the store and k in the queue; every later one_out call made while
\* the queue is non-empty returns an item removed from the store, moves the
\* front of the queue into the store and leaves the occupied count at C.
C10_Original ==
    /\ (NoReleaseYet /\ Len(admitted) > capacity)
          => /\ occupied_count = capacity
             /\ Len(queue) = Len(admitted) - capacity
    /\ (~interleaved /\ ~panicked /\ queue # <<>>)
          => \A r \in ReleaseOutcomes : C10_RefillStep(r)

\* C10 amended: the same for a container whose capacity C is at least 1.
C10_OverflowRefill ==
    capacity >= 1 => C10_Original

C10_Witness ==
    /\ capacity >= 2
    /\ ~interleaved
    /\ lastOp = "one_out"
    /\ Len(released) >= 2
    /\ queue # <<>>
    /\ occupied_count = capacity

\* the items held, in store order followed by queue order
HeldSeq(st, q) ==
    LET occ == SelectSeq(st, is_some)
    IN  [i \in 1..Len(occ) |-> unwrap(occ[i])] \o q

\* the block one_in appends for an item
Block(item) == <<Some(item)>> \o [i \in 1..S |-> None]

\* C11: arrival order is preserved among held items. The items of the
\* occupied slots in store order, followed by the queue front to back, are in
\* strictly increasing order of admission; so the queue front is the earliest
\* queued item and is admitted later than every item in the store.
C11_ArrivalOrder ==
    LET h == HeldSeq(store, queue)
    IN  \A i, j \in DOMAIN h : i < j => h[i].id < h[j].id

C11_Witness ==
    /\ lastOp = "one_out"
    /\ is_some(result)
    /\ occupied_count >= 2
    /\ Len(queue) >= 2
    /\ \E x \in OccupiedItems : x.id < unwrap(result).id

\* C12: single-item round trip. When a container of capacity at least 1 that
\* holds nothing is given one item x, it has exactly 1 occupied slot and a
\* store of length S + 1 = 7; the next one_out returns Some(x) and leaves the
\* store empty, and a further one_out returns None.
C12_SingleRoundTrip ==
    (/\ capacity >= 1
     /\ lastOp = "one_in"
     /\ Len(admitted) = Len(released) + 1)
        => LET x == admitted[Len(admitted)]
           IN  /\ occupied_count = 1
               /\ Len(store) = 7
               /\ queue = <<>>
               /\ \A r \in ReleaseOutcomes :
                    /\ ~r.panicked
                    /\ r.result = Some(x)
                    /\ r.store = <<>>
                    /\ r.queue = <<>>
                    /\ \A k \in Draws(r.store) :
                         LET r2 == one_out(r.store, r.queue, capacity, k)
                         IN  r2.result = None /\ ~r2.panicked

C12_Witness ==
    /\ phase.tag = "Two"
    /\ capacity >= 1
    /\ Len(admitted) = 1
    /\ Len(released) = 1
    /\ released[1] = admitted[1]
    /\ store = <<>>
    /\ lastOp = "one_out"
    /\ result = None

\* C13: absence is idempotent. On a container that was never given an item
\* every one_out returns None and store and queue stay empty; and any one_out
\* call that returns None leaves store, queue and capacity as they were.
C13_AbsenceChangesNothing ==
    /\ [](admitted = <<>> =>
            /\ store = <<>> /\ queue = <<>> /\ result = None /\ ~panicked
            /\ \A r \in ReleaseOutcomes :
                 r.result = None /\ r.store = <<>> /\ r.queue = <<>> /\ ~r.panicked)
    /\ []((~panicked) =>
            \A r \in ReleaseOutcomes :
                (r.result = None) => (r.store = store /\ r.queue = queue /\ ~r.panicked))
    /\ [][(lastOp' = "one_out" /\ result' = None)
            => (store' = store /\ queue' = queue /\ capacity' = capacity /\ ~panicked')]_vars

C13_Witness ==
    /\ lastOp = "one_out"
    /\ result = None
    /\ Len(queue) >= 2
    /\ interleaved

\* no loss and no duplication for a container with the given fields and
\* history of returned items
NoDupNoLossOf(st, q, rel) ==
    LET places(x) == Cardinality({i \in DOMAIN st : st[i] = Some(x)})
                        + Cardinality({j \in DOMAIN q : q[j] = x})
    IN  /\ \A x \in Range(admitted) \ Range(rel) : places(x) = 1
        /\ \A x \in Range(rel) : x \in Range(admitted) /\ places(x) = 0
        /\ NoRepeat(rel)

\* the two containers of a pair run are in the same state
InSync == other.store = store /\ other.queue = queue

\* C14: selection is non-deterministic. Two containers built from the same
\* Phase (capacity at least 2) and given the same items are in the same state
\* until the first one_out; whenever they are in the same state and the store
\* holds two items of different value, the next pair of one_out calls can
\* return different values; and in every pair run both containers keep the
\* no-loss/no-duplication property.
C14_PairCanDiverge ==
    /\ NoDupNoLossOf(store, queue, released)
    /\ NoDupNoLossOf(other.store, other.queue, other.released)
    /\ Len(other.released) = Len(released)
    /\ NoReleaseYet => InSync
    /\ (/\ capacity >= 2
        /\ InSync
        /\ \E x, y \in OccupiedItems : x.val # y.val)
          => \E r1 \in ReleaseOutcomes :
               \E r2 \in OutcomesOf(other.store, other.queue, capacity) :
                  /\ is_some(r1.result)
                  /\ is_some(r2.result)
                  /\ unwrap(r1.result).val # unwrap(r2.result).val

\* the same-numbered one_out calls of the two containers returned different
\* values
C14_Witness ==
    /\ capacity >= 2
    /\ lastOp = "one_out"
    /\ Len(released) = Len(other.released)
    /\ Len(released) >= 2
    /\ is_some(result)
    /\ is_some(other.result)
    /\ unwrap(result).val # unwrap(other.result).val
    /\ released[1] = other.released[1]

\* C15: one_in changes exactly one of the two sequences. Below capacity it
\* appends one block (Some(item) and S empty slots) at the end of the store
\* and leaves the existing slots and the queue unchanged; at capacity it
\* appends item at the end of the queue and leaves the store unchanged.
C15_AdmitFrame ==
    [][(nextId' # nextId) =>
         LET item == admitted'[Len(admitted')]
         IN  IF occupied_count < capacity
             THEN store' = store \o Block(item) /\ queue' = queue
             ELSE queue' = Append(queue, item) /\ store' = store]_vars

C15_Witness ==
    /\ lastOp = "one_in"
    /\ interleaved
    /\ released # <<>>
    /\ occupied_count >= 2
    /\ queue = <<>>
    /\ unwrap(store[Len(store) - S]) = admitted[Len(admitted)]

\* the store without the block that starts at slot i (1-based)
WithoutBlock(st, i) == SubSeq(st, 1, i - 1) \o SubSeq(st, i + S + 1, Len(st))

\* C16: a one_out that returns an item removes exactly the block of that item
\* (its occupied slot and the S empty slots after it); the other blocks stay,
\* contiguous and in the same order, and the only block the call can add is
\* that of the queue front, after all surviving blocks.
C16_ReleaseFrame ==
    [][(Len(released') # Len(released)) =>
         /\ is_some(result')
         /\ \E i \in OccupiedIdx :
              /\ store[i] = result'
              /\ \/ store' = WithoutBlock(store, i)
                 \/ /\ queue # <<>>
                    /\ store' = WithoutBlock(store, i) \o Block(Head(queue))]_vars

C16_Witness ==
    /\ lastOp = "one_out"
    /\ is_some(result)
    /\ occupied_count >= 3
    /\ \E x, y \in OccupiedItems :
         /\ x.id < unwrap(result).id
         /\ unwrap(result).id < y.id
         /\ y.id <= capacity
    /\ unwrap(store[Len(store) - S]).id > capacity

\* C17: no operation can raise an error. No call has panicked, and in every
\* reachable state with a non-empty store the occupied count n is at least 1,
\* every draw k of [0, n) gives an index k * (S + 1) inside the store that
\* addresses an occupied slot, the drained range [index, index + S + 1) lies
\* inside the store, and one_out returns an item (never a panic, never the
\* None of the fallback branch).
C17_NoPanic ==
    /\ ~panicked
    /\ Len(store) > 0 =>
         /\ occupied_count >= 1
         /\ \A k \in gen_range(0, occupied_count) :
              /\ k * (S + 1) < Len(store)
              /\ is_some(store[k * (S + 1) + 1])
              /\ k * (S + 1) + S + 1 <= Len(store)
         /\ \A r \in ReleaseOutcomes : ~r.panicked /\ is_some(r.result)
    /\ Len(store) = 0 => \A r \in ReleaseOutcomes : ~r.panicked

C17_Witness ==
    /\ lastOp = "one_out"
    /\ is_some(result)
    /\ Len(store) > 0
    /\ queue = <<>>
    /\ \A x \in OccupiedItems : x.id < unwrap(result).id
    /\ Len(released) >= 2

\* the number of items a store and a queue hold
HeldCount(st, q) == get_number_in_store(st) + Len(q)

\* C18: a container of capacity at least 1 drains. While it holds m >= 1 items
\* every one_out, whatever the draw, returns an item and leaves m - 1 items
\* held; when it holds none, store and queue are empty and one_out returns
\* None. So m one_out calls without a one_in in between return m items and
\* the next one returns None.
C18_Drain ==
    (capacity >= 1 /\ ~panicked) =>
        /\ HeldCount(store, queue) >= 1 =>
              \A r \in ReleaseOutcomes :
                  /\ ~r.panicked
                  /\ is_some(r.result)
                  /\ HeldCount(r.store, r.queue) = HeldCount(store, queue) - 1
        /\ HeldCount(store, queue) = 0 =>
              /\ store = <<>>
              /\ queue = <<>>
              /\ \A r \in ReleaseOutcomes : r.result = None /\ ~r.panicked

C18_Witness ==
    /\ capacity >= 1
    /\ capacity < Len(admitted)
    /\ Len(admitted) >= 4
    /\ Len(released) = Len(admitted)
    /\ store = <<>>
    /\ queue = <<>>
    /\ lastOp = "one_out"
    /\ result = None
    /\ ~interleaved

TypeOK ==
    /\ phase \in Phases
    /\ capacity \in 0..MaxOccupancy
    /\ nextId \in 1..(MaxAdmit + 1)
    /\ panicked \in BOOLEAN
    /\ lastOp \in {"new", "one_in", "one_out"}
    /\ interleaved \in BOOLEAN
    /\ other.panicked \in BOOLEAN
====
